---- MODULE Spec2Model ----
(***************************************************************************)
(* Model of the Delphi Reads Telegram bot (bots/reads.ts, bots/ai.ts).     *)
(*                                                                         *)
(* One conversation session is modelled.  Texts are real strings, so that  *)
(* normalizeUrl, defaultTagsForUrl and the description length checks are   *)
(* computed on characters as the code computes them.  A handler is cut at  *)
(* its awaits only where something else can run in between: the URL        *)
(* handler (awaited by the dispatcher) and the publish callback, which     *)
(* handlePost starts through ensureLinkSet WITHOUT awaiting it, so that it *)
(* outlives the event that started it.                                     *)
(***************************************************************************)
EXTENDS Integers, Sequences, FiniteSets, TLC

VARIABLES session, url, pubs, replies, posted, last

vars == <<session, url, pubs, replies, posted, last>>

(***************************************************************************)
(* String helpers (String.prototype.startsWith / includes / replace /      *)
(* indexOf on a string pattern).                                           *)
(***************************************************************************)
IndexOf(s, p) ==
  LET hits == {i \in 1..(Len(s) - Len(p) + 1) : SubSeq(s, i, i + Len(p) - 1) = p}
  IN  IF hits = {} THEN 0 ELSE CHOOSE i \in hits : \A j \in hits : i <= j

Includes(s, p) == IndexOf(s, p) # 0

StartsWith(s, p) == Len(s) >= Len(p) /\ SubSeq(s, 1, Len(p)) = p

\* String.prototype.replace with a string pattern: the first occurrence only.
ReplaceFirst(s, p, r) ==
  LET i == IndexOf(s, p)
  IN  IF i = 0 THEN s
      ELSE SubSeq(s, 1, i - 1) \o r \o SubSeq(s, i + Len(p), Len(s))

\* substring(0, n)
Substring0(s, n) == SubSeq(s, 1, IF n < Len(s) THEN n ELSE Len(s))

RECURSIVE Repeat(_, _)
Repeat(s, n) ==
  IF n = 0 THEN ""
  ELSE IF n % 2 = 0 THEN LET h == Repeat(s, n \div 2) IN h \o h
  ELSE s \o Repeat(s, n - 1)

\* index of the first character of s, at or after position from, that is in cs;
\* Len(s) + 1 when there is none
FirstOf(s, from, cs) ==
  LET hits == {i \in from..Len(s) : SubSeq(s, i, i) \in cs}
  IN  IF hits = {} THEN Len(s) + 1 ELSE CHOOSE i \in hits : \A j \in hits : i <= j

\* index of the first character of s, at or after position from, that is NOT in cs
FirstNotOf(s, from, cs) ==
  LET hits == {i \in from..Len(s) : SubSeq(s, i, i) \notin cs}
  IN  IF hits = {} THEN Len(s) + 1 ELSE CHOOSE i \in hits : \A j \in hits : i <= j

Digits == {"0", "1", "2", "3", "4", "5", "6", "7", "8", "9"}

RECURSIVE ToNat(_)
ToNat(s) ==
  IF Len(s) = 0 THEN 0
  ELSE LET d == SubSeq(s, Len(s), Len(s))
           v == CHOOSE n \in 0..9 : SubSeq("0123456789", n + 1, n + 1) = d
       IN  10 * ToNat(SubSeq(s, 1, Len(s) - 1)) + v

(***************************************************************************)
(* new URL(s), as far as normalizeUrl uses it: origin and pathname of an   *)
(* http(s) URL, or a TypeError.  Only lower-case hosts without dot         *)
(* segments or characters that need percent-encoding are fed to it.        *)
(***************************************************************************)
ForbiddenHostChars == {" ", "<", ">", "^", "|", "[", "]", "%"}

ParseUrl(s) ==
  LET scheme == IF StartsWith(s, "https:") THEN "https"
                ELSE IF StartsWith(s, "http:") THEN "http" ELSE ""
      a0     == FirstNotOf(s, Len(scheme) + 2, {"/", "\\"})
      a1     == FirstOf(s, a0, {"/", "\\", "?", "#"})
      auth   == SubSeq(s, a0, a1 - 1)
      at     == {i \in 1..Len(auth) : SubSeq(auth, i, i) = "@"}
      hp     == IF at = {} THEN auth
                ELSE SubSeq(auth, (CHOOSE i \in at : \A j \in at : j <= i) + 1, Len(auth))
      c      == IndexOf(hp, ":")
      host   == IF c = 0 THEN hp ELSE SubSeq(hp, 1, c - 1)
      port   == IF c = 0 THEN "" ELSE SubSeq(hp, c + 1, Len(hp))
      portOk == /\ \A i \in 1..Len(port) : SubSeq(port, i, i) \in Digits
                /\ Len(port) <= 5
                /\ ToNat(port) <= 65535
      hostOk == /\ Len(host) > 0
                /\ \A i \in 1..Len(host) : SubSeq(host, i, i) \notin ForbiddenHostChars
      dflt   == IF scheme = "https" THEN 443 ELSE 80
      p1     == FirstOf(s, a1, {"?", "#"})
      path   == SubSeq(s, a1, p1 - 1)
  IN  IF scheme = "" \/ ~hostOk \/ ~portOk
      THEN [ok |-> FALSE, origin |-> "", pathname |-> ""]
      ELSE [ok |-> TRUE,
            origin |-> scheme \o "://" \o host \o
                       (IF port = "" \/ ToNat(port) = dflt THEN "" ELSE ":" \o port),
            pathname |-> IF path = "" THEN "/" ELSE path]

(***************************************************************************)
(* normalizeUrl: the string it returns, or ok = FALSE when new URL throws. *)
(***************************************************************************)
NormalizeSteps123(u) ==
  LET a == IF ~StartsWith(u, "http") THEN "https://" \o u ELSE u
      b == ReplaceFirst(a, "http://", "https://")
      c == ReplaceFirst(b, "vxtwitter.com", "x.com")
  IN  ReplaceFirst(c, "twitter.com", "x.com")

normalizeUrl(u) ==
  LET d == NormalizeSteps123(u)
  IN  IF Includes(d, "x.com")
      THEN LET p == ParseUrl(d)
           IN  [ok |-> p.ok, url |-> p.origin \o p.pathname]
      ELSE [ok |-> TRUE, url |-> d]

(***************************************************************************)
(* Constants and tables of reads.ts                                        *)
(***************************************************************************)
ERROR_UNAUTHORIZED == "ERROR_UNAUTHORIZED"
ERROR_UNKNOWN == "ERROR_UNKNOWN"
ERROR_DUPLICATE_READ == "ERROR_DUPLICATE_READ"
OPENAI_ERROR == "OPENAI_ERROR"

MaxDescription == 500
TruncateAt == 497
Ellipsis == "..."

ReadsStates == {"await_description", "await_title", "await_url", "build", "none"}

types == <<"reads", "media", "tweets", "news", "podcast", "other">>

sectors == <<"general", "finance", "infrastructure", "macro-markets", "metaverse">>

\* Object.keys(defaultTagsForDomain) in insertion order, with the values
defaultTagsForDomain ==
  << [domain |-> "bloomberg.com", tags |-> <<"news">>],
     [domain |-> "medium.com",    tags |-> <<"reads">>],
     [domain |-> "spotify.com",   tags |-> <<"podcast">>],
     [domain |-> "x.com",         tags |-> <<"tweets">>],
     [domain |-> "youtube.com",   tags |-> <<"media">>] >>

createNewItem ==
  [title |-> "", link |-> "", description |-> "", image_url |-> "",
   taxonomy |-> <<>>, tags |-> <<>>]

createDefaultSession == [state |-> "none", item |-> createNewItem]

defaultTagsForUrl(u) ==
  LET hits == {i \in 1..Len(defaultTagsForDomain) : Includes(u, defaultTagsForDomain[i].domain)}
  IN  IF hits = {} THEN <<>>
      ELSE defaultTagsForDomain[CHOOSE i \in hits : \A j \in hits : i <= j].tags

(***************************************************************************)
(* Replies (ctx.reply), named by what they show.                           *)
(***************************************************************************)
ReplyLinkFirst == "send me a link first"
ReplyHelp == "help text"
ReplyPreview == "preview"
ReplyMenu == "What would you like to do?"
ReplySelectSector == "Select a sector: "
ReplySelectType == "Select a type: "
ReplyAskUrl == "what url do you want post?"
ReplyAskTitle == "what title do you want?"
ReplyAskDescription == "what description do you want? type \"none\" for no description"
ReplyTooLong == "sorry, that description too long"
ReplyFetching == "fetching that url, hang on a sec..."
ReplyUrlDuplicate == "Oops, this url was recently added already"
ReplyUrlUnresolved == "sorry, I could not fetch that url"
ReplyAttempt == "Attempting to publish..."
ReplyPublished == "Item has been published. Paste another URL to start over."
ReplyUnauthorized == "Unauthorized: reach out to engineering for assistance."
ReplyPublishDuplicate == "Oops, this item was already added recently."
ReplyPublishUnknown == "Oops, something went wrong - try to /publish again or start over with /new"
ReplyState == "session dump"
ReplyPasteUrl == "paste a url to get started"

(***************************************************************************)
(* Session helpers.  Each returns the session and the replies it sends.    *)
(***************************************************************************)
Out(s, r) == [s |-> s, r |-> r]

\* a resetState that forgets the item
resetState_KeepsItem(s) == [s EXCEPT !.state = "none"]

resetState(s) == createDefaultSession

\* an ensureLinkSet without its guard
ensureLinkSet_NoGuard(s, cb) == cb

\* ensureLinkSet(ctx, callback): cb is what the callback yields when it runs
ensureLinkSet(s, cb) ==
  IF s.item.link = "" THEN Out(s, <<ReplyLinkFirst>>) ELSE cb

handleHelp(s) == ensureLinkSet(s, Out(s, <<ReplyHelp>>))

handleSetDescription(s) ==
  ensureLinkSet(s, Out([s EXCEPT !.state = "await_description"], <<ReplyAskDescription>>))

handleSetOption(s, menu) == ensureLinkSet(s, Out(s, <<menu>>))

handleSetTaxonomy(s) == handleSetOption(s, ReplySelectSector)

handleSetTag(s) == handleSetOption(s, ReplySelectType)

handleSetTitle(s) ==
  ensureLinkSet(s, Out([s EXCEPT !.state = "await_title"], <<ReplyAskTitle>>))

replyWithPreview(s) == Out(s, <<ReplyPreview, ReplyMenu>>)

nextState(s) ==
  IF s.state = "build"
  THEN IF s.item.title = "" THEN handleSetTitle(s)
       ELSE IF Len(s.item.taxonomy) < 1 THEN handleSetTaxonomy(s)
       ELSE IF Len(s.item.tags) < 1 THEN handleSetTag(s)
       ELSE replyWithPreview(s)
  ELSE Out(s, <<>>)

nextBuildState(s) == nextState([s EXCEPT !.state = "build"])

\* a new that keeps the draft
handleNew_KeepsDraft(s) == Out([s EXCEPT !.state = "await_url"], <<ReplyAskUrl>>)

handleNew(s) == Out([resetState(s) EXCEPT !.state = "await_url"], <<ReplyAskUrl>>)

\* an update that stores a description of any length
handleUpdateDescription_NoLimit(description, s) ==
  nextBuildState([s EXCEPT !.item.description =
                             IF description = "none" THEN "" ELSE description])

\* an update that cuts a long description to 497 characters and the ellipsis
handleUpdateDescription_Truncates(description, s) ==
  nextBuildState([s EXCEPT !.item.description =
                             IF description = "none" THEN ""
                             ELSE IF Len(description) > MaxDescription
                             THEN Substring0(description, TruncateAt) \o Ellipsis
                             ELSE description])

handleUpdateDescription(description, s) ==
  IF Len(description) > MaxDescription
  THEN LET o == handleSetDescription(s) IN Out(o.s, <<ReplyTooLong>> \o o.r)
  ELSE nextBuildState([s EXCEPT !.item.description =
                                   IF description = "none" THEN "" ELSE description])

handleUpdateTitle(title, s) == nextBuildState([s EXCEPT !.item.title = title])

(***************************************************************************)
(* Inputs: what the user and the collaborators can send.                   *)
(***************************************************************************)
MaxPublish == 1    \* publish callbacks in flight at once

Long501 == Repeat("d", 501)
Long500 == Repeat("e", 500)

Texts ==
  {"twitter.com/u?s=20", "http://e.org/p", "https://x.com:99999/", "none", Long501}

EventKinds == {"command", "action"}

Usernames == {"analyst"}

SectorPicks == {"general", "finance"}
TypePicks == {"other"}

\* GET link-metadata: a 200 with a JSON body, another status, or a rejected fetch
MetadataBodies ==
  { [title |-> "",   description |-> "",      image |-> ""],
    [title |-> "MT", description |-> Long501, image |-> "img"],
    [title |-> "MT", description |-> Long500, image |-> ""] }

NoMetadata == [title |-> "", description |-> "", image |-> ""]

MetadataAnswers ==
  [status : {200}, body : MetadataBodies] \cup
  [status : {404, 0}, body : {NoMetadata}]       \* 0: fetch rejected

\* GET list items page 1: the links of the page, or a failed request
ListPages == {{}, {"https://x.com/u"}, {"https://x.com/u", "https://e.org/p"}}

ListAnswers(page) == {[ok |-> TRUE, data |-> page], [ok |-> FALSE, data |-> {}]}

\* chat completion: the summary text, or whatever is thrown inside the try of
\* fetchUrlSummary (client construction, the request, reading choices[0])
Summaries == {"summary", Long501}

SummaryFailures ==
  {"401 Incorrect API key provided", "Connection error.",
   "Cannot read properties of undefined (reading 'message')"}

SummaryAnswers ==
  [ok : {TRUE}, text : Summaries] \cup [ok : {FALSE}, text : SummaryFailures]

\* POST create-read: response status, 0 when fetch rejects
PublishStatuses == {200, 201, 403, 409, 500, 0}

(***************************************************************************)
(* State                                                                   *)
(*   session  ctx.session of the conversation                              *)
(*   url      the running handleUpdateUrl call: its position, its locals   *)
(*            and the list page the storage API holds while it runs        *)
(*   pubs     the publish callbacks in flight (started by handlePost)      *)
(*   replies  the replies sent by the last step                            *)
(*   posted   the create-read request bodies sent by the last step         *)
(*   last     the last step: operation, event kind, the user's text, the   *)
(*            response status, the summary service's answer                *)
(***************************************************************************)
UrlIdle ==
  [pc |-> "idle", text |-> "", cleanUrl |-> "", metadata |-> NoMetadata, list |-> {}]

Step(op, kind, text, status, answer) ==
  [op |-> op, kind |-> kind, text |-> text, status |-> status, answer |-> answer]

Init ==
  /\ session = createDefaultSession
  /\ url = UrlIdle
  /\ pubs = <<>>
  /\ replies = <<>>
  /\ posted = <<>>
  /\ last = Step("init", "", "", 0, "")

\* an event is dispatched when the handler of the previous one has returned
Ready == url.pc = "idle"

Remove(q, i) == SubSeq(q, 1, i - 1) \o SubSeq(q, i + 1, Len(q))

\* a handler that runs to its end in one piece
Handle(o, op, kind, text) ==
  /\ Ready
  /\ session' = o.s
  /\ replies' = o.r
  /\ posted' = <<>>
  /\ last' = Step(op, kind, text, 0, "")
  /\ UNCHANGED <<url, pubs>>

(***************************************************************************)
(* Commands and button actions                                             *)
(***************************************************************************)
New == \E k \in EventKinds : Handle(handleNew(session), "new", k, "")

Help == \E k \in EventKinds : Handle(handleHelp(session), "help", k, "")

\* bot.command('preview', replyWithPreview): a command only
Preview == Handle(replyWithPreview(session), "preview", "command", "")

SetDescription ==
  \E k \in EventKinds : Handle(handleSetDescription(session), "setdescription", k, "")

SetTitle == \E k \in EventKinds : Handle(handleSetTitle(session), "settitle", k, "")

SetType == \E k \in EventKinds : Handle(handleSetTag(session), "settype", k, "")

SetSector == \E k \in EventKinds : Handle(handleSetTaxonomy(session), "setsector", k, "")

\* The buttons of the menus sent earlier stay in the chat, also across a
\* restart of the process (which loses the sessions), so a press can arrive
\* in any state of the session.
PickSector ==
  \E slug \in SectorPicks :
    Handle(nextState([session EXCEPT !.item.taxonomy = <<slug>>]), "setsector_", "action", slug)

PickType ==
  \E slug \in TypePicks :
    Handle(nextState([session EXCEPT !.item.tags = <<slug>>]), "settype_", "action", slug)

HearsState == Handle(Out(session, <<ReplyState>>), "state", "text", "state")

(***************************************************************************)
(* Text messages.  bot.hears(/^https?\:/) comes before bot.on(text), and a *)
(* handler that does not call next() ends the chain.                       *)
(***************************************************************************)
LooksLikeUrl(t) == StartsWith(t, "http:") \/ StartsWith(t, "https:")

GoesToUrlHandler(t) == LooksLikeUrl(t) \/ session.state = "await_url"

DescriptionText ==
  \E t \in Texts :
    /\ ~LooksLikeUrl(t) /\ session.state = "await_description"
    /\ Handle(handleUpdateDescription(t, session), "description", "text", t)

TitleText ==
  \E t \in Texts :
    /\ ~LooksLikeUrl(t) /\ session.state = "await_title"
    /\ Handle(handleUpdateTitle(t, session), "title", "text", t)

OtherText ==
  \E t \in Texts :
    /\ ~LooksLikeUrl(t) /\ session.state \in {"build", "none"}
    /\ Handle(Out(session, <<ReplyPasteUrl>>), "text", "text", t)

(***************************************************************************)
(* handleUpdateUrl, cut at its awaits                                      *)
(***************************************************************************)
truncateDescription(description) ==
  IF description # "" /\ Len(description) > MaxDescription
  THEN Substring0(description, TruncateAt) \o Ellipsis
  ELSE description

\* the try block after both awaits (lines 418-428)
populateFromMetadata(s, cleanUrl, metadata) ==
  [s EXCEPT !.item.title = metadata.title,
            !.item.tags = defaultTagsForUrl(cleanUrl),
            !.item.description = truncateDescription(metadata.description),
            !.item.image_url = metadata.image]

\* a fallback that leaves the title alone
populateFromSummary_NoTitle(s, cleanUrl, summary) ==
  [s EXCEPT !.item.description = summary,
            !.item.image_url = ""]

\* the fallback after fetchUrlSummary (lines 439-441)
populateFromSummary(s, cleanUrl, summary) ==
  [s EXCEPT !.item.description = summary,
            !.item.title = cleanUrl,
            !.item.image_url = ""]

\* a filter that keeps every item of the page
isDuplicate_AnyItem(data, link) == {read \in data : TRUE} # {}

\* json.data.filter(read => read.link === link).length
isDuplicate(data, link) == {read \in data : read = link} # {}

\* lines 451-453
enterBuild(s) == nextState([s EXCEPT !.state = "build"])

\* a catch that rethrows what it caught
fetchUrlSummaryError_Rethrow(thrown) == thrown

\* the catch of fetchUrlSummary: what it throws, given what was thrown inside
fetchUrlSummaryError(thrown) == OPENAI_ERROR

\* an outer catch that rethrows what is no duplicate
catchResolve_Rethrow(message) ==
  IF message = ERROR_DUPLICATE_READ THEN "reply_duplicate" ELSE "idle"

\* the outer catch of handleUpdateUrl (lines 429-436): where the handler goes
\* on, given the message of what was thrown in the try
catchResolve(message) ==
  IF message = ERROR_DUPLICATE_READ THEN "reply_duplicate" ELSE "summary"

UrlStep(s, r, u, op, status, answer) ==
  /\ session' = s
  /\ replies' = r
  /\ url' = u
  /\ posted' = <<>>
  /\ last' = Step(op, "text", IF url.pc = "idle" THEN u.text ELSE url.text, status, answer)
  /\ UNCHANGED pubs

\* resetState; await ctx.reply('fetching ...')
UrlText ==
  \E t \in Texts :
    /\ Ready
    /\ GoesToUrlHandler(t)
    /\ \E page \in ListPages :
         UrlStep(resetState(session), <<ReplyFetching>>,
                 [UrlIdle EXCEPT !.pc = "reply_fetching", !.text = t, !.list = page],
                 "url", 0, "")

\* normalizeUrl; item.link = cleanUrl; the metadata request goes out.
\* normalizeUrl is outside the try: when new URL throws, the handler ends there.
UrlNormalize ==
  /\ url.pc = "reply_fetching"
  /\ LET n == normalizeUrl(url.text)
     IN  IF n.ok
         THEN UrlStep([session EXCEPT !.item.link = n.url], <<>>,
                      [url EXCEPT !.pc = "metadata", !.cleanUrl = n.url],
                      "url_normalize", 0, "")
         ELSE UrlStep(session, <<>>, UrlIdle, "url_throw", 0, "")

\* fetchUrlMetadata answers; on 200 the list request goes out, otherwise the
\* summary request
UrlMetadata ==
  \E a \in MetadataAnswers :
    /\ url.pc = "metadata"
    /\ IF a.status = 200
       THEN UrlStep(session, <<>>, [url EXCEPT !.pc = "duplicate", !.metadata = a.body],
                    "url_metadata", a.status, "")
       ELSE UrlStep(session, <<>>,
                    [url EXCEPT !.pc = catchResolve("fetch url metadata error")],
                    "url_metadata", a.status, "")

\* ensureNonDuplicateLink answers
UrlDuplicate ==
  \E a \in ListAnswers(url.list) :
    /\ url.pc = "duplicate"
    /\ IF ~a.ok
       THEN UrlStep(session, <<>>, [url EXCEPT !.pc = catchResolve("fetch failed")],
                    "url_list_failed", 0, "")
       ELSE IF isDuplicate(a.data, url.cleanUrl)
       THEN UrlStep(session, <<ReplyUrlDuplicate>>,
                    [url EXCEPT !.pc = catchResolve(ERROR_DUPLICATE_READ)],
                    "url_duplicate", 0, "")
       ELSE LET o == enterBuild(populateFromMetadata(session, url.cleanUrl, url.metadata))
            IN  UrlStep(o.s, o.r, UrlIdle, "url_resolved", 0, "")

\* after the duplicate reply: resetState
UrlDuplicateReset ==
  /\ url.pc = "reply_duplicate"
  /\ UrlStep(resetState(session), <<>>, UrlIdle, "url_duplicate_reset", 0, "")

\* fetchUrlSummary answers
UrlSummary ==
  \E a \in SummaryAnswers :
    /\ url.pc = "summary"
    /\ IF a.ok
       THEN LET o == enterBuild(populateFromSummary(session, url.cleanUrl, a.text))
            IN  UrlStep(o.s, o.r, UrlIdle, "url_summarized", 0, a.text)
       ELSE IF fetchUrlSummaryError(a.text) = OPENAI_ERROR
       THEN UrlStep(session, <<ReplyUrlUnresolved>>, [url EXCEPT !.pc = "reply_unresolved"],
                    "url_unresolved", 0, a.text)
       ELSE \* the inner catch swallows any other error: on to lines 451-453
            LET o == enterBuild(session)
            IN  UrlStep(o.s, o.r, UrlIdle, "url_swallowed", 0, a.text)

\* after the 'could not fetch' reply: handleNew
UrlUnresolvedNew ==
  /\ url.pc = "reply_unresolved"
  /\ LET o == handleNew(session)
     IN  UrlStep(o.s, o.r, UrlIdle, "url_unresolved_new", 0, "")

(***************************************************************************)
(* handlePost / postRead.  handlePost does not await ensureLinkSet, so the *)
(* handler returns at the first await of the callback and the rest runs    *)
(* as a continuation while later events are handled.                       *)
(***************************************************************************)
\* a postRead that takes 403 for a success
postReadError_Misses403(status) ==
  IF status = 0 THEN "fetch failed"
  ELSE IF status = 409 THEN ERROR_DUPLICATE_READ
  ELSE IF status > 403 THEN ERROR_UNKNOWN
  ELSE ""

\* postRead's reading of the response (lines 320-326); "" is success
postReadError(status) ==
  IF status = 0 THEN "fetch failed"
  ELSE IF status = 403 THEN ERROR_UNAUTHORIZED
  ELSE IF status = 409 THEN ERROR_DUPLICATE_READ
  ELSE IF status > 201 THEN ERROR_UNKNOWN
  ELSE ""

\* handlePost up to the first await of postRead.  ctx.callbackQuery is undefined
\* for a command, so reading .from throws a TypeError, which the catch of
\* handlePost answers with its default branch.
handlePost(s, kind) ==
  ensureLinkSet(s, Out(s, IF kind = "action" THEN <<ReplyAttempt>>
                          ELSE <<ReplyPublishUnknown>>))

PubStep(s, r, q, p, op, kind, status) ==
  /\ session' = s
  /\ replies' = r
  /\ pubs' = q
  /\ posted' = p
  /\ last' = Step(op, kind, "", status, "")
  /\ UNCHANGED url

\* the publish command or button; a button press that gets to the 'Attempting'
\* reply leaves the callback in flight
Publish ==
  \E k \in EventKinds, u \in Usernames :
    /\ Ready
    /\ LET o == handlePost(session, k)
       IN  IF o.r = <<ReplyAttempt>>
           THEN /\ Len(pubs) < MaxPublish
                /\ PubStep(o.s, o.r, Append(pubs, [pc |-> "reply_attempt", tg_username |-> u]),
                           <<>>, "publish", k, 0)
           ELSE PubStep(o.s, o.r, pubs, <<>>, "publish", k, 0)

\* after the 'Attempting' reply: the request goes out with the item as it is now
PublishSend ==
  \E i \in 1..Len(pubs) :
    /\ pubs[i].pc = "reply_attempt"
    /\ PubStep(session, <<>>, [pubs EXCEPT ![i].pc = "fetch"],
               <<[item |-> session.item, tg_username |-> pubs[i].tg_username]>>,
               "publish_send", "action", 0)

\* the response arrives: success, or the catch of handlePost
PublishResponse ==
  \E i \in 1..Len(pubs), status \in PublishStatuses :
    /\ pubs[i].pc = "fetch"
    /\ LET e == postReadError(status)
       IN  IF e = ""
           THEN PubStep(resetState(session), <<ReplyPublished>>, Remove(pubs, i), <<>>,
                        "publish_response", "action", status)
           ELSE IF e = ERROR_UNAUTHORIZED
           THEN PubStep(session, <<ReplyUnauthorized>>, Remove(pubs, i), <<>>,
                        "publish_response", "action", status)
           ELSE IF e = ERROR_DUPLICATE_READ
           THEN PubStep(session, <<ReplyPublishDuplicate>>,
                        [pubs EXCEPT ![i].pc = "reply_conflict"], <<>>,
                        "publish_response", "action", status)
           ELSE PubStep(session, <<ReplyPublishUnknown>>, Remove(pubs, i), <<>>,
                        "publish_response", "action", status)

\* after the 'already added' reply: resetState
PublishConflictReset ==
  \E i \in 1..Len(pubs) :
    /\ pubs[i].pc = "reply_conflict"
    /\ PubStep(resetState(session), <<>>, Remove(pubs, i), <<>>,
               "publish_conflict_reset", "action", 409)

(***************************************************************************)
(* Specification                                                           *)
(***************************************************************************)
Next ==
  \/ New \/ Help \/ Preview \/ SetDescription \/ SetTitle \/ SetType \/ SetSector
  \/ PickSector \/ PickType \/ HearsState
  \/ DescriptionText \/ TitleText \/ OtherText
  \/ UrlText \/ UrlNormalize \/ UrlMetadata \/ UrlDuplicate \/ UrlDuplicateReset
  \/ UrlSummary \/ UrlUnresolvedNew
  \/ Publish \/ PublishSend \/ PublishResponse \/ PublishConflictReset

Spec == Init /\ [][Next]_vars

TypeOK ==
  /\ session.state \in ReadsStates
  /\ Len(pubs) <= MaxPublish

(***************************************************************************)
(* Properties                                                              *)
(***************************************************************************)
EmptyDraft(s) == s.item = createNewItem

\* the host of an http(s) URL without credentials or port, for the table lookup
Hostname(u) ==
  LET a0 == FirstNotOf(u, IndexOf(u, ":") + 1, {"/"})
      a1 == FirstOf(u, a0, {"/", "?", "#", ":"})
  IN  SubSeq(u, a0, a1 - 1)

\* the default-tag table read by hostname
TableEntry(host) ==
  LET hits == {i \in 1..Len(defaultTagsForDomain) : defaultTagsForDomain[i].domain = host}
  IN  IF hits = {} THEN <<>> ELSE defaultTagsForDomain[CHOOSE i \in hits : TRUE].tags

\* C1: a URL text whose metadata is found and whose link is no duplicate leaves
\* the draft with link = normalize(text), title, description and image from
\* the metadata and nothing else from before, the state building (or
\* awaiting_title with the title prompt when the metadata has no title).
C1_ResolvedDraftFromMetadata ==
  [][last'.op = "url_resolved" =>
       /\ session'.item.link = normalizeUrl(last'.text).url
       /\ session'.item.title = url.metadata.title
       /\ session'.item.description = truncateDescription(url.metadata.description)
       /\ session'.item.image_url = url.metadata.image
       /\ session'.item.taxonomy = <<>>
       /\ IF url.metadata.title = ""
          THEN session'.state = "await_title" /\ replies' = <<ReplyAskTitle>>
          ELSE session'.state = "build" /\ replies' = <<ReplySelectSector>>]_vars

\* C2: with the link set, a publish event gets to the create-read request,
\* as a command and as a button action alike.
C2_PublishEventSubmits ==
  (last.op = "publish" /\ session.item.link # "") =>
      /\ replies = <<ReplyAttempt>>
      /\ \E i \in 1..Len(pubs) : pubs[i].pc = "reply_attempt"

\* C3: when the create-read request answers success or conflict, the user is
\* notified, and the draft is empty and the state none once the callback ends.
C3_PublishSuccessOrConflictResets ==
  /\ (last.op = "publish_response" /\ last.status \in {200, 201}) =>
        /\ replies = <<ReplyPublished>>
        /\ session = createDefaultSession
  /\ (last.op = "publish_response" /\ last.status = 409) =>
        /\ replies = <<ReplyPublishDuplicate>>
        /\ \E i \in 1..Len(pubs) : pubs[i].pc = "reply_conflict"
  /\ last.op = "publish_conflict_reset" => session = createDefaultSession

C3_Witness ==
  /\ last.op = "publish_conflict_reset"
  /\ session = createDefaultSession

\* C4: no step of a publish that ends Unauthorized or Unknown changes the
\* draft or the state, and the user is notified.
C4_PublishFailureKeepsSession ==
  [][/\ last'.op \in {"publish", "publish_send"} => session' = session
     /\ (last'.op = "publish_response" /\ last'.status \notin {200, 201, 409}) =>
          /\ session' = session
          /\ replies' = IF last'.status = 403 THEN <<ReplyUnauthorized>>
                        ELSE <<ReplyPublishUnknown>>]_vars

C4_Witness ==
  /\ last.op = "publish_response"
  /\ last.status = 403
  /\ session.item.link # ""
  /\ session.state = "build"

\* C5: publish with the link unset only replies "send me a link first": no
\* request, no callback in flight, session unchanged.
C5_PublishWithoutLink ==
  [][(last'.op = "publish" /\ session.item.link = "") =>
       /\ replies' = <<ReplyLinkFirst>>
       /\ session' = session
       /\ pubs' = pubs
       /\ posted' = <<>>]_vars

C5_Witness ==
  /\ last.op = "publish"
  /\ replies = <<ReplyLinkFirst>>
  /\ session.state = "await_url"

\* C6 as claimed: a resolution of a link that is in the list page ends with
\* DuplicateLink, whatever the metadata service answers.
C6_ListedLinkAlwaysDuplicate ==
  [][(url.pc # "idle" /\ url'.pc = "idle" /\ url.cleanUrl \in url.list) =>
       last'.op = "url_duplicate_reset"]_vars

\* C6 as amended: the list is consulted only after the metadata service has
\* answered found; when the page then comes back with the link in it, the
\* user is notified and the handler ends with the draft reset and the state
\* none; a link that is not in the page never ends with DuplicateLink.
C6_DuplicateAfterMetadataFound ==
  [][/\ (url.pc = "duplicate" /\ url' # url /\ last'.op # "url_list_failed"
           /\ url.cleanUrl \in url.list) =>
          /\ last'.op = "url_duplicate"
          /\ replies' = <<ReplyUrlDuplicate>>
          /\ url'.pc = "reply_duplicate"
     /\ (url.pc = "reply_duplicate" /\ url' # url) =>
          /\ last'.op = "url_duplicate_reset"
          /\ session' = createDefaultSession
     /\ last'.op \in {"url_duplicate", "url_duplicate_reset"} =>
          url.cleanUrl \in url.list
     /\ (url.pc = "metadata" /\ url' # url) =>
          url'.pc = IF last'.status = 200 THEN "duplicate" ELSE "summary"]_vars

C6_Witness ==
  /\ last.op = "url_duplicate_reset"
  /\ session = createDefaultSession
  /\ normalizeUrl(last.text).url = "https://x.com/u"

\* C7: every failure of the summary fallback ends with the reply "could not
\* fetch that url" and then with the empty draft and state await_url.
C7_FallbackFailureBehavesAsNew ==
  [][/\ (url.pc = "summary" /\ url' # url /\ last'.op # "url_summarized") =>
          /\ last'.op = "url_unresolved"
          /\ replies' = <<ReplyUrlUnresolved>>
          /\ url'.pc = "reply_unresolved"
     /\ (url.pc = "reply_unresolved" /\ url' # url) =>
          /\ last'.op = "url_unresolved_new"
          /\ session' = [state |-> "await_url", item |-> createNewItem]
          /\ replies' = <<ReplyAskUrl>>]_vars

C7_Witness ==
  /\ last.op = "url_unresolved_new"
  /\ session.state = "await_url"
  /\ EmptyDraft(session)

\* C8: the draft's description never has more than 500 characters.
C8_DescriptionAtMost500 == Len(session.item.description) <= MaxDescription

\* C9: after a successful resolution, by metadata or by summary, the draft's
\* tag is the default-tag table entry of the normalized link's hostname.
C9_TagSeededFromHostname ==
  last.op \in {"url_resolved", "url_summarized"} =>
      session.item.tags = TableEntry(Hostname(normalizeUrl(last.text).url))

\* C10 as claimed: after a resolution by the summary fallback the title and
\* the image are unset, the title prompt is issued and the state is await_title.
C10_SummaryLeavesTitleUnset ==
  last.op = "url_summarized" =>
      /\ session.item.title = ""
      /\ session.item.image_url = ""
      /\ session.state = "await_title"
      /\ replies = <<ReplyAskTitle>>

\* C10 as amended: after a resolution by the summary fallback the description
\* is the summary, the image is unset and the title is the normalized link,
\* so the title prompt is not issued and the state is build.
C10_SummarySetsTitleToLink ==
  [][last'.op = "url_summarized" =>
       /\ session'.item.description = last'.answer
       /\ session'.item.image_url = ""
       /\ session'.item.title = url.cleanUrl
       /\ session'.item.title # ""
       /\ session'.state = "build"
       /\ replies' # <<ReplyAskTitle>>]_vars

C10_Witness ==
  /\ last.op = "url_summarized"
  /\ session.state = "build"
  /\ session.item.title = "https://e.org/p"
  /\ session.item.description = "summary"
  /\ replies = <<ReplySelectSector>>

\* C11: a sector or tag button press sets the field to the chosen value and
\* re-enters building, in whatever state it arrives: the session and the
\* replies are those of entering building with the field set.  Stated for a
\* draft whose link is set, the case in which the bot has shown a menu.
C11_PickReentersBuilding ==
  [][/\ (last'.op = "setsector_" /\ session.item.link # "") =>
          /\ session'.item.taxonomy = <<last'.text>>
          /\ Out(session', replies') =
               nextBuildState([session EXCEPT !.item.taxonomy = <<last'.text>>])
     /\ (last'.op = "settype_" /\ session.item.link # "") =>
          /\ session'.item.tags = <<last'.text>>
          /\ Out(session', replies') =
               nextBuildState([session EXCEPT !.item.tags = <<last'.text>>])]_vars

GuardedCommands == {"help", "preview", "settitle", "setdescription", "settype", "setsector"}

\* C12: with the link unset each of help, preview, settitle, setdescription,
\* settype and setsector only replies "send me a link first" and leaves the
\* session alone; with the link set none of them changes a draft field.
C12_CommandsGuardedByLink ==
  [][last'.op \in GuardedCommands =>
       /\ session'.item = session.item
       /\ session.item.link = "" =>
            /\ replies' = <<ReplyLinkFirst>>
            /\ session' = session]_vars

EventOps ==
  {"new", "help", "preview", "setdescription", "settitle", "settype", "setsector",
   "setsector_", "settype_", "state", "description", "title", "text", "url", "publish"}

PublishTaskOps == {"publish_send", "publish_response", "publish_conflict_reset"}

\* C13: the handling of an event, with its network calls and the session
\* updates after them, is over before the next event of the session is
\* handled: no event is dispatched while a publish is still under way, and a
\* step of a publish follows the publish event or another step of it.
C13_EventsRunToCompletion ==
  [][/\ last'.op \in EventOps => pubs = <<>>
     /\ last'.op \in PublishTaskOps => last.op \in {"publish"} \cup PublishTaskOps]_vars

\* C14: a failing collaborator never ends the handler: after a failure of the
\* metadata service, the duplicate check or the summary service the URL handler
\* goes on in its catch, where a reply follows the failure (the duplicate
\* reply at once, otherwise the reply the handler ends with), and a failed
\* publish request is answered with a reply; the session is in one of the
\* defined states throughout.
C14_CollaboratorFailuresCaught ==
  [][/\ session'.state \in ReadsStates
     /\ ( \/ last'.op = "url_metadata" /\ last'.status # 200
          \/ last'.op \in {"url_list_failed", "url_duplicate", "url_unresolved"} )
          => url'.pc \in {"summary", "reply_duplicate", "reply_unresolved"}
     /\ (url.pc \in {"summary", "reply_unresolved"} /\ url'.pc = "idle")
          => replies' # <<>>
     /\ last'.op = "url_duplicate" => replies' = <<ReplyUrlDuplicate>>
     /\ (last'.op = "publish_response" /\ postReadError(last'.status) # "")
          => replies' # <<>>]_vars

\* the duplicate check has failed and the handler goes on to the summary
C14_Witness ==
  /\ last.op = "url_list_failed"
  /\ url.pc = "summary"
  /\ session.state \in ReadsStates

\* C15: normalize never fails: the step after the 'fetching' reply always
\* yields a link and goes on to the metadata request.
C15_NormalizeNeverFails ==
  [][(url.pc = "reply_fetching" /\ url' # url) =>
       /\ normalizeUrl(url.text).ok
       /\ url'.pc = "metadata"
       /\ session'.item.link = normalizeUrl(url.text).url]_vars

EntersBuildingOps == {"title", "url_resolved", "url_summarized", "url_swallowed"}

\* C16: on entering building the prompt and the state follow the first missing
\* field of the draft in the order title, sector, tag, and entering building
\* again with the draft unchanged gives the same.
C16_PromptByFirstMissingField ==
  [][( \/ last'.op \in EntersBuildingOps
       \/ last'.op = "description" /\ Len(last'.text) <= MaxDescription
       \/ last'.op \in {"setsector_", "settype_"} /\ session.state = "build" ) =>
       /\ IF session'.item.title = ""
          THEN session'.state = "await_title" /\ replies' = <<ReplyAskTitle>>
          ELSE IF session'.item.taxonomy = <<>>
          THEN session'.state = "build" /\ replies' = <<ReplySelectSector>>
          ELSE IF session'.item.tags = <<>>
          THEN session'.state = "build" /\ replies' = <<ReplySelectType>>
          ELSE session'.state = "build" /\ replies' = <<ReplyPreview, ReplyMenu>>
       /\ nextBuildState(session') = Out(session', replies')]_vars

C19_NewClearsDraft ==
  [][last'.op = "new" =>
       /\ EmptyDraft(session')
       /\ session'.state = "await_url"
       /\ replies' = <<ReplyAskUrl>>]_vars

\* a new button press has been handled
C19_Witness ==
  /\ last.op = "new"
  /\ last.kind = "action"
  /\ EmptyDraft(session)
  /\ session.state = "await_url"

\* C20: every create-read request carries a complete draft: link, title,
\* sector and tag are set.
C20_PostedDraftComplete ==
  \A i \in 1..Len(posted) :
    /\ posted[i].item.link # ""
    /\ posted[i].item.title # ""
    /\ posted[i].item.taxonomy # <<>>
    /\ posted[i].item.tags # <<>>

\* C21: in every reachable state, also when a publish started by an earlier
\* event completes during or after the handling of a later one, a session in
\* await_title, await_description or build has its link set.
C21_DraftStatesHaveLink ==
  session.state \in {"await_title", "await_description", "build"} =>
    session.item.link # ""

====
